---------------------------- MODULE Spec2Model ----------------------------
(***************************************************************************)
(* Model of graph.cpp: a dense, index-addressed directed multigraph with   *)
(* the four mutators Graph_addNode, Graph_addEdge, Graph_removeEdge and    *)
(* Graph_removeNode.                                                       *)
(*                                                                         *)
(* std::vector is 0-based, TLA+ sequences are 1-based: the element at C++  *)
(* index i is the sequence element i + 1.  Adjacency entries keep their    *)
(* C++ values (0-based node indices).                                      *)
(*                                                                         *)
(* Spec takes each call as one step and records it in history variables;   *)
(* StepSpec runs Graph_removeNode's loop one iteration per step.           *)
(***************************************************************************)
EXTENDS Integers, Sequences, FiniteSets, TLC

(* ------------------------------ bounds --------------------------------- *)

\* Largest node count explored.
MaxNodes == 3

\* Largest total number of adjacency entries explored.
MaxEdges == 3

\* Width in bits given to std::size_t. The only use of the width in the code
\* is the sentinel SIZE_MAX; no index arithmetic in the code can wrap.
SizeBits == 8

(* ------------------------- types and constants ------------------------- *)

\* enum GraphStatus
GRAPH_SUCCESS == "GRAPH_SUCCESS"
GRAPH_ERR_INVALID_PARENT == "GRAPH_ERR_INVALID_PARENT"
GRAPH_ERR_INVALID_NODE == "GRAPH_ERR_INVALID_NODE"
GRAPH_ERR_INVALID_EDGE == "GRAPH_ERR_INVALID_EDGE"

\* The value a status out-parameter holds before any call has written it.
UNSET == "UNSET"

\* std::numeric_limits<std::size_t>::max(), the "no parent" sentinel.
SIZE_MAX == 2^SizeBits - 1

\* The doubles offered as node values (1.23 and 4.56 in main).
Values == {"v1_23", "v4_56"}

\* The std::size_t arguments offered as node, source and target: every index
\* that can be valid, and MaxNodes, which is out of range at every node count.
Indices == 0 .. MaxNodes

\* The arguments offered as parent: the same, and the "no parent" sentinel.
Parents == Indices \cup {SIZE_MAX}

(* ----------------------------- std helpers ----------------------------- *)

\* v[i] for a std::vector v and a 0-based index i.
At(v, i) == v[i + 1]

\* std::vector::push_back
push_back(v, x) == Append(v, x)

\* std::vector::erase(begin() + i): the element at index i is deleted and
\* later elements move down by one.
erase_at(v, i) == SubSeq(v, 1, i) \o SubSeq(v, i + 2, Len(v))

\* std::find(begin, end, x) - begin: the 0-based index of the first element
\* equal to x, or size() (the end iterator) when there is none.
find(v, x) ==
    IF \E j \in 1 .. Len(v) : v[j] = x
    THEN (CHOOSE j \in 1 .. Len(v) : v[j] = x /\ \A h \in 1 .. j - 1 : v[h] # x) - 1
    ELSE Len(v)

\* erase(std::remove(begin, end, x), end): every element equal to x is
\* deleted, the rest keep their order.
erase_remove(v, x) == SelectSeq(v, LAMBDA e : e # x)

\* The for_each lambda of Graph_removeNode: if (n > node) --n.
decrement_above(v, node) ==
    [j \in 1 .. Len(v) |-> IF v[j] > node THEN v[j] - 1 ELSE v[j]]

\* v with the element at 0-based index i replaced by x.
set_at(v, i, x) == [v EXCEPT ![i + 1] = x]

(* --------------------------- the operations ---------------------------- *)

\* struct Graph {} value-initialised: both vectors empty.
EmptyGraph == [node_data |-> << >>, adj |-> << >>]

\* What a call leaves behind: the graph and the out-parameters.
Result(gr, out, st) == [g |-> gr, out_node |-> out, status |-> st]

\* Graph_addNode with the invalid-parent branch undoing the value it pushed
\* but not the adjacency list.
addNode_undoes_value(gr, val, parent) ==
    LET new_index == Len(gr.node_data)
    IN  IF parent # SIZE_MAX /\ parent >= new_index
        THEN Result([gr EXCEPT !.adj = push_back(@, << >>)],
                    new_index, GRAPH_ERR_INVALID_PARENT)
        ELSE Result([node_data |-> push_back(gr.node_data, val),
                     adj |-> IF parent = SIZE_MAX
                             THEN push_back(gr.adj, << >>)
                             ELSE push_back(set_at(gr.adj, parent,
                                                   push_back(At(gr.adj, parent), new_index)),
                                            << >>)],
                    new_index, GRAPH_SUCCESS)

\* Graph_addNode with the parent test written parent <= new_index.
addNode_parent_le(gr, val, parent) ==
    LET new_index == Len(gr.node_data)
        appended == [node_data |-> push_back(gr.node_data, val),
                     adj |-> push_back(gr.adj, << >>)]
    IN  IF parent # SIZE_MAX
        THEN IF parent <= new_index
             THEN Result([appended EXCEPT !.adj =
                              set_at(@, parent, push_back(At(@, parent), new_index))],
                         new_index, GRAPH_SUCCESS)
             ELSE Result(appended, new_index, GRAPH_ERR_INVALID_PARENT)
        ELSE Result(appended, new_index, GRAPH_SUCCESS)

\* Graph_addNode inserting the new index at the front of the parent's list.
addNode_edge_in_front(gr, val, parent) ==
    LET new_index == Len(gr.node_data)
        appended == [node_data |-> push_back(gr.node_data, val),
                     adj |-> push_back(gr.adj, << >>)]
    IN  IF parent # SIZE_MAX
        THEN IF parent < new_index
             THEN Result([appended EXCEPT !.adj =
                              set_at(@, parent, <<new_index>> \o At(@, parent))],
                         new_index, GRAPH_SUCCESS)
             ELSE Result(appended, new_index, GRAPH_ERR_INVALID_PARENT)
        ELSE Result(appended, new_index, GRAPH_SUCCESS)

Graph_addNode(gr, val, parent) ==
    LET new_index == Len(gr.node_data)
        appended == [node_data |-> push_back(gr.node_data, val),
                     adj |-> push_back(gr.adj, << >>)]
    IN  IF parent # SIZE_MAX
        THEN IF parent < new_index
             THEN Result([appended EXCEPT !.adj =
                              set_at(@, parent, push_back(At(@, parent), new_index))],
                         new_index, GRAPH_SUCCESS)
             ELSE Result(appended, new_index, GRAPH_ERR_INVALID_PARENT)
        ELSE Result(appended, new_index, GRAPH_SUCCESS)

\* Graph_addEdge validating the source only.
addEdge_checks_source_only(gr, source, target, out) ==
    IF source >= Len(gr.node_data)
    THEN Result(gr, out, GRAPH_ERR_INVALID_EDGE)
    ELSE Result([gr EXCEPT !.adj = set_at(@, source, push_back(At(@, source), target))],
                out, GRAPH_SUCCESS)

\* Graph_addEdge that does not append a target the list already holds.
addEdge_dedups(gr, source, target, out) ==
    IF source >= Len(gr.node_data) \/ target >= Len(gr.node_data)
    THEN Result(gr, out, GRAPH_ERR_INVALID_EDGE)
    ELSE IF find(At(gr.adj, source), target) # Len(At(gr.adj, source))
         THEN Result(gr, out, GRAPH_SUCCESS)
         ELSE Result([gr EXCEPT !.adj =
                          set_at(@, source, push_back(At(@, source), target))],
                     out, GRAPH_SUCCESS)

Graph_addEdge(gr, source, target, out) ==
    IF source >= Len(gr.node_data) \/ target >= Len(gr.node_data)
    THEN Result(gr, out, GRAPH_ERR_INVALID_EDGE)
    ELSE Result([gr EXCEPT !.adj = set_at(@, source, push_back(At(@, source), target))],
                out, GRAPH_SUCCESS)

\* The 0-based index of the last element of v equal to x, or size().
find_last(v, x) ==
    IF \E j \in 1 .. Len(v) : v[j] = x
    THEN (CHOOSE j \in 1 .. Len(v) : v[j] = x /\ \A h \in j + 1 .. Len(v) : v[h] # x) - 1
    ELSE Len(v)

\* Graph_removeEdge erasing the last occurrence instead of the first.
removeEdge_erases_last(gr, source, target, out) ==
    IF source >= Len(gr.adj)
    THEN Result(gr, out, GRAPH_ERR_INVALID_EDGE)
    ELSE LET neighbors == At(gr.adj, source)
             it == find_last(neighbors, target)
         IN  IF it # Len(neighbors)
             THEN Result([gr EXCEPT !.adj = set_at(@, source, erase_at(neighbors, it))],
                         out, GRAPH_SUCCESS)
             ELSE Result(gr, out, GRAPH_ERR_INVALID_EDGE)

\* Graph_removeEdge erasing every occurrence (the idiom of Graph_removeNode).
removeEdge_erases_all(gr, source, target, out) ==
    IF source >= Len(gr.adj)
    THEN Result(gr, out, GRAPH_ERR_INVALID_EDGE)
    ELSE LET neighbors == At(gr.adj, source)
             it == find(neighbors, target)
         IN  IF it # Len(neighbors)
             THEN Result([gr EXCEPT !.adj =
                              set_at(@, source, erase_remove(neighbors, target))],
                         out, GRAPH_SUCCESS)
             ELSE Result(gr, out, GRAPH_ERR_INVALID_EDGE)

\* Graph_removeEdge reporting an out-of-range source as an invalid node.
removeEdge_reports_node(gr, source, target, out) ==
    IF source >= Len(gr.adj)
    THEN Result(gr, out, GRAPH_ERR_INVALID_NODE)
    ELSE LET neighbors == At(gr.adj, source)
             it == find(neighbors, target)
         IN  IF it # Len(neighbors)
             THEN Result([gr EXCEPT !.adj = set_at(@, source, erase_at(neighbors, it))],
                         out, GRAPH_SUCCESS)
             ELSE Result(gr, out, GRAPH_ERR_INVALID_EDGE)

\* Graph_removeEdge reporting success when the target is not found.
removeEdge_absent_succeeds(gr, source, target, out) ==
    IF source >= Len(gr.adj)
    THEN Result(gr, out, GRAPH_ERR_INVALID_EDGE)
    ELSE LET neighbors == At(gr.adj, source)
             it == find(neighbors, target)
         IN  IF it # Len(neighbors)
             THEN Result([gr EXCEPT !.adj = set_at(@, source, erase_at(neighbors, it))],
                         out, GRAPH_SUCCESS)
             ELSE Result(gr, out, GRAPH_SUCCESS)

Graph_removeEdge(gr, source, target, out) ==
    IF source >= Len(gr.adj)
    THEN Result(gr, out, GRAPH_ERR_INVALID_EDGE)
    ELSE LET neighbors == At(gr.adj, source)
             it == find(neighbors, target)
         IN  IF it # Len(neighbors)
             THEN Result([gr EXCEPT !.adj = set_at(@, source, erase_at(neighbors, it))],
                         out, GRAPH_SUCCESS)
             ELSE Result(gr, out, GRAPH_ERR_INVALID_EDGE)

\* Graph_removeNode purging only the first occurrence of node from each list
\* (the find-and-erase of Graph_removeEdge in place of std::remove).
removeNode_purges_first(gr, node, out) ==
    IF node >= Len(gr.node_data)
    THEN Result(gr, out, GRAPH_ERR_INVALID_NODE)
    ELSE LET erased == erase_at(gr.adj, node)
         IN  Result([node_data |-> erase_at(gr.node_data, node),
                     adj |-> [i \in 1 .. Len(erased) |->
                                 decrement_above(erase_at(erased[i], find(erased[i], node)),
                                                 node)]],
                    out, GRAPH_SUCCESS)

\* Graph_removeNode erasing the last value instead of the value at node.
removeNode_pops_value(gr, node, out) ==
    IF node >= Len(gr.node_data)
    THEN Result(gr, out, GRAPH_ERR_INVALID_NODE)
    ELSE LET erased == erase_at(gr.adj, node)
         IN  Result([node_data |-> erase_at(gr.node_data, Len(gr.node_data) - 1),
                     adj |-> [i \in 1 .. Len(erased) |->
                                 decrement_above(erase_remove(erased[i], node), node)]],
                    out, GRAPH_SUCCESS)

\* Graph_removeNode without the purge of node from the remaining lists.
removeNode_keeps_edges(gr, node, out) ==
    IF node >= Len(gr.node_data)
    THEN Result(gr, out, GRAPH_ERR_INVALID_NODE)
    ELSE LET erased == erase_at(gr.adj, node)
         IN  Result([node_data |-> erase_at(gr.node_data, node),
                     adj |-> [i \in 1 .. Len(erased) |-> decrement_above(erased[i], node)]],
                    out, GRAPH_SUCCESS)

\* Graph_removeNode without the decrement of the targets above node.
removeNode_no_decrement(gr, node, out) ==
    IF node >= Len(gr.node_data)
    THEN Result(gr, out, GRAPH_ERR_INVALID_NODE)
    ELSE LET erased == erase_at(gr.adj, node)
         IN  Result([node_data |-> erase_at(gr.node_data, node),
                     adj |-> [i \in 1 .. Len(erased) |-> erase_remove(erased[i], node)]],
                    out, GRAPH_SUCCESS)

\* Graph_removeNode with the range test written node > size(), and the
\* erase at end() that follows for node = size() taking the last element.
removeNode_range_gt(gr, node, out) ==
    IF node > Len(gr.node_data) \/ Len(gr.node_data) = 0
    THEN Result(gr, out, GRAPH_ERR_INVALID_NODE)
    ELSE LET k == IF node = Len(gr.node_data) THEN node - 1 ELSE node
             erased == erase_at(gr.adj, k)
         IN  Result([node_data |-> erase_at(gr.node_data, k),
                     adj |-> [i \in 1 .. Len(erased) |->
                                 decrement_above(erase_remove(erased[i], node), node)]],
                    out, GRAPH_SUCCESS)

Graph_removeNode(gr, node, out) ==
    IF node >= Len(gr.node_data)
    THEN Result(gr, out, GRAPH_ERR_INVALID_NODE)
    ELSE LET erased == erase_at(gr.adj, node)
         IN  Result([node_data |-> erase_at(gr.node_data, node),
                     adj |-> [i \in 1 .. Len(erased) |->
                                 decrement_above(erase_remove(erased[i], node), node)]],
                    out, GRAPH_SUCCESS)

(* ------------------------------- state --------------------------------- *)

\* g, out_node and status are the objects of main that the Graph_* functions
\* write through their reference parameters.  call, pre_g, run, trip and
\* driver are history variables: they record the calls made, so that what a
\* call did can be stated of the state it returned in.  No Graph_* operator
\* reads them; the actions read them only to tell which call follows which.

VARIABLES
    g,          \* the Graph object: [node_data, adj]
    out_node,   \* the caller's std::size_t passed as out_node
    status,     \* the caller's GraphStatus passed as status
    call,       \* history: the call that produced this state, if any
    pre_g,      \* history: the Graph as it was when that call was entered
    run,        \* history: the run of identical removeEdge calls in progress
    trip,       \* history: an add call undone by the call that returned
    driver,     \* history: how far the calls made so far follow main
    frame       \* the activation of the Graph_* function that is running

vars == <<g, out_node, status, call, pre_g, run, trip, driver, frame>>

\* Number of adjacency entries of the whole graph.
RECURSIVE SumLen(_)
SumLen(lists) ==
    IF lists = << >> THEN 0 ELSE Len(Head(lists)) + SumLen(Tail(lists))

\* Number of elements of v equal to x.
Count(v, x) == Cardinality({j \in 1 .. Len(v) : v[j] = x})

WithinBounds(gr) ==
    /\ Len(gr.node_data) <= MaxNodes
    /\ SumLen(gr.adj) <= MaxEdges

NoCall == [op |-> "none"]
NoRun == [m |-> 0, len |-> 0]
NoTrip == [kind |-> "none"]

\* No Graph_* function is running.
NoFrame == [pc |-> "none"]

\* The calls made so far are not the calls of main.
OffScript == [step |-> 0 - 1, root |-> 0, child |-> 0, printed |-> << >>]

\* main before its first call: root and child are not yet written.
ScriptStart == [step |-> 0, root |-> 0, child |-> 0, printed |-> << >>]

\* The calls of main, in order, with the arguments main passes: d.step calls
\* of main have been made, c is the call made now and r what it returned.
\* root and child are the indices the two addNode calls wrote; printed is the
\* sequence of statuses main has written to std::cout.
Script(d, c, r) ==
    LET next == [d EXCEPT !.step = @ + 1, !.printed = Append(@, r.status)]
    IN  IF d.step = 0 /\ c = [op |-> "addNode", val |-> "v1_23", parent |-> SIZE_MAX]
        THEN [next EXCEPT !.root = r.out_node]
        ELSE IF d.step = 1 /\ c = [op |-> "addNode", val |-> "v4_56", parent |-> d.root]
        THEN [next EXCEPT !.child = r.out_node]
        ELSE IF d.step = 2 /\ c = [op |-> "addEdge", source |-> d.root, target |-> d.child]
        THEN next
        ELSE IF d.step = 3 /\ c = [op |-> "removeEdge", source |-> d.root, target |-> d.child]
        THEN next
        ELSE IF d.step = 4 /\ c = [op |-> "removeNode", node |-> d.child]
        THEN next
        ELSE OffScript

\* main: Graph g; std::size_t root, child; GraphStatus status;
Init ==
    /\ g = EmptyGraph
    /\ out_node = 0
    /\ status = UNSET
    /\ call = NoCall
    /\ pre_g = EmptyGraph
    /\ run = NoRun
    /\ trip = NoTrip
    /\ driver = ScriptStart
    /\ frame = NoFrame

\* The state after a call c that returned r.
Returns(r, c) ==
    /\ WithinBounds(r.g)
    /\ g' = r.g
    /\ out_node' = r.out_node
    /\ status' = r.status
    /\ call' = c
    /\ pre_g' = g
    /\ driver' = Script(driver, c, r)
    /\ frame' = NoFrame

AddNode ==
    /\ call = NoCall
    /\ \E val \in Values, parent \in Parents :
        Returns(Graph_addNode(g, val, parent),
                [op |-> "addNode", val |-> val, parent |-> parent])
    /\ run' = NoRun
    /\ trip' = NoTrip

AddEdge ==
    /\ call = NoCall
    /\ \E source \in Indices, target \in Indices :
        Returns(Graph_addEdge(g, source, target, out_node),
                [op |-> "addEdge", source |-> source, target |-> target])
    /\ run' = NoRun
    /\ trip' = NoTrip

\* A removeEdge call is made after the caller has read the previous result,
\* or it repeats the removeEdge call just made, with the same arguments and
\* nothing in between.  Such a run is recorded in run: m is the number of
\* copies of target in the source's list when the run began, len the number
\* of calls made so far.  A run is followed for m + 1 calls.  A removeEdge
\* call is also made right after a successful addEdge with the same
\* arguments; trip then keeps the Graph as it was before that addEdge.
RemoveEdge ==
    LET repeats == call.op = "removeEdge" /\ run.len <= run.m
        undoes == call.op = "addEdge" /\ status = GRAPH_SUCCESS
        sources == IF call = NoCall THEN Indices
                   ELSE IF repeats \/ undoes THEN {call.source} ELSE {}
        targets == IF call = NoCall THEN Indices
                   ELSE IF repeats \/ undoes THEN {call.target} ELSE {}
    IN  \E source \in sources, target \in targets :
            /\ Returns(Graph_removeEdge(g, source, target, out_node),
                       [op |-> "removeEdge", source |-> source, target |-> target])
            /\ run' = IF repeats
                      THEN [run EXCEPT !.len = @ + 1]
                      ELSE [m |-> IF source < Len(g.adj)
                                  THEN Count(At(g.adj, source), target) ELSE 0,
                            len |-> 1]
            /\ trip' = IF undoes THEN [kind |-> "addEdge-removeEdge", g0 |-> pre_g]
                       ELSE NoTrip

\* A removeNode call is made after the caller has read the previous result,
\* or right after an addNode with the index that addNode wrote to out_node;
\* trip then keeps the Graph as it was before that addNode.
RemoveNode ==
    LET undoes == call.op = "addNode"
        nodes == IF call = NoCall THEN Indices
                 ELSE IF undoes THEN {out_node} ELSE {}
    IN  \E node \in nodes :
            /\ Returns(Graph_removeNode(g, node, out_node),
                       [op |-> "removeNode", node |-> node])
            /\ run' = NoRun
            /\ trip' = IF undoes THEN [kind |-> "addNode-removeNode", g0 |-> pre_g]
                       ELSE NoTrip

\* The caller has read what the call wrote (main prints status and the index
\* after each call): the out-parameters are dead until the next call writes
\* them, and the history of the call is dropped.  The Graph is untouched.
ReadResult ==
    /\ call # NoCall
    /\ out_node' = 0
    /\ status' = UNSET
    /\ call' = NoCall
    /\ pre_g' = EmptyGraph
    /\ run' = NoRun
    /\ trip' = NoTrip
    /\ UNCHANGED <<g, driver, frame>>

Next == AddNode \/ AddEdge \/ RemoveEdge \/ RemoveNode \/ ReadResult

Spec == Init /\ [][Next]_vars

(* ---------------------- the operations step by step -------------------- *)

\* Under StepSpec a call is an activation that is entered, runs and returns.
\* Graph_addNode, Graph_addEdge and Graph_removeEdge are straight-line code
\* and run in one step; Graph_removeNode runs its range-for loop over g.adj
\* one iteration per step.  frame.i is the position of the loop, frame.visits
\* counts per remaining list the iterations that had it as neighbors (0, 1,
\* or 2 for more than one).

\* The calls offered.
Calls ==
    [op : {"addNode"}, val : Values, parent : Parents]
        \cup [op : {"addEdge", "removeEdge"}, source : Indices, target : Indices]
        \cup [op : {"removeNode"}, node : Indices]

\* What the call c returns when made on gr.
Outcome(gr, c, out) ==
    IF c.op = "addNode" THEN Graph_addNode(gr, c.val, c.parent)
    ELSE IF c.op = "addEdge" THEN Graph_addEdge(gr, c.source, c.target, out)
    ELSE IF c.op = "removeEdge" THEN Graph_removeEdge(gr, c.source, c.target, out)
    ELSE Graph_removeNode(gr, c.node, out)

\* A loop body that leaves the loop position where it was.
removeNode_body_stays(lists, node, i) ==
    [adj |-> set_at(lists, i, decrement_above(erase_remove(At(lists, i), node), node)),
     i |-> i]

\* One iteration of the loop of Graph_removeNode, with neighbors bound to
\* the list at position i: the list is filtered, then decremented, and the
\* loop moves to the next list.
removeNode_body(lists, node, i) ==
    [adj |-> set_at(lists, i, decrement_above(erase_remove(At(lists, i), node), node)),
     i |-> i + 1]

History == <<run, trip, driver>>

\* The caller makes the call c.
Enter ==
    /\ frame = NoFrame
    /\ \E c \in Calls :
        /\ WithinBounds(Outcome(g, c, out_node).g)
        /\ call' = c
    /\ pre_g' = g
    /\ frame' = [pc |-> "entry"]
    /\ UNCHANGED <<g, out_node, status, History>>

\* The body of Graph_addNode.
StepAddNode ==
    /\ frame.pc = "entry" /\ call.op = "addNode"
    /\ LET r == Graph_addNode(g, call.val, call.parent)
       IN  g' = r.g /\ out_node' = r.out_node /\ status' = r.status
    /\ frame' = [pc |-> "returned"]
    /\ UNCHANGED <<call, pre_g, History>>

\* The body of Graph_addEdge.
StepAddEdge ==
    /\ frame.pc = "entry" /\ call.op = "addEdge"
    /\ LET r == Graph_addEdge(g, call.source, call.target, out_node)
       IN  g' = r.g /\ out_node' = r.out_node /\ status' = r.status
    /\ frame' = [pc |-> "returned"]
    /\ UNCHANGED <<call, pre_g, History>>

\* The body of Graph_removeEdge.
StepRemoveEdge ==
    /\ frame.pc = "entry" /\ call.op = "removeEdge"
    /\ LET r == Graph_removeEdge(g, call.source, call.target, out_node)
       IN  g' = r.g /\ out_node' = r.out_node /\ status' = r.status
    /\ frame' = [pc |-> "returned"]
    /\ UNCHANGED <<call, pre_g, History>>

\* Graph_removeNode up to its loop: the range test, and the two erases.
RemoveNodeEnter ==
    /\ frame.pc = "entry" /\ call.op = "removeNode"
    /\ IF call.node >= Len(g.node_data)
       THEN /\ status' = GRAPH_ERR_INVALID_NODE
            /\ frame' = [pc |-> "returned"]
            /\ UNCHANGED g
       ELSE /\ g' = [node_data |-> erase_at(g.node_data, call.node),
                     adj |-> erase_at(g.adj, call.node)]
            /\ frame' = [pc |-> "loop", i |-> 0,
                         visits |-> [j \in 1 .. Len(g.adj) - 1 |-> 0]]
            /\ UNCHANGED status
    /\ UNCHANGED <<out_node, call, pre_g, History>>

\* One iteration of for (auto &neighbors : g.adj).
RemoveNodeVisit ==
    /\ frame.pc = "loop"
    /\ frame.i # Len(g.adj)
    /\ LET b == removeNode_body(g.adj, call.node, frame.i)
       IN  /\ g' = [g EXCEPT !.adj = b.adj]
           /\ frame' = [frame EXCEPT
                            !.i = b.i,
                            !.visits[frame.i + 1] = IF @ >= 2 THEN 2 ELSE @ + 1]
    /\ UNCHANGED <<out_node, status, call, pre_g, History>>

\* The loop has reached g.adj.end(): status = GRAPH_SUCCESS.
RemoveNodeExit ==
    /\ frame.pc = "loop"
    /\ frame.i = Len(g.adj)
    /\ status' = GRAPH_SUCCESS
    /\ frame' = [frame EXCEPT !.pc = "returned"]
    /\ UNCHANGED <<g, out_node, call, pre_g, History>>

\* The caller has read what the call wrote.
Leave ==
    /\ frame.pc = "returned"
    /\ frame' = NoFrame
    /\ call' = NoCall
    /\ pre_g' = EmptyGraph
    /\ out_node' = 0
    /\ status' = UNSET
    /\ UNCHANGED <<g, History>>

\* The steps of a function that has been entered, and the caller's read.
Run ==
    \/ StepAddNode
    \/ StepAddEdge
    \/ StepRemoveEdge
    \/ RemoveNodeEnter
    \/ RemoveNodeVisit
    \/ RemoveNodeExit
    \/ Leave

StepNext == Enter \/ Run

\* The program is single-threaded and synchronous: a function that has been
\* entered keeps running while it has a step to take.
StepSpec == Init /\ [][StepNext]_vars /\ WF_vars(Run)

(* ------------------------------ properties ----------------------------- *)

\* Node counts after and before the recorded call.
n == Len(g.node_data)
pre_n == Len(pre_g.node_data)

\* The adjacency list of node i (0-based) after and before the recorded call.
List(i) == At(g.adj, i)
PreList(i) == At(pre_g.adj, i)

\* The recorded call left node values and adjacency lists as they were.
GraphUnchanged == g.node_data = pre_g.node_data /\ g.adj = pre_g.adj

\* C1: in every reachable state every entry of every adjacency list is
\* strictly less than the current node count.
C1_EntriesBelowNodeCount ==
    \A i \in 1 .. Len(g.adj) :
        \A j \in 1 .. Len(g.adj[i]) : g.adj[i][j] < n

\* A successful removeNode(k) has renumbered a target above k, and the
\* renumbered target is the last node of the smaller graph.
C1_Witness ==
    /\ call.op = "removeNode"
    /\ status = GRAPH_SUCCESS
    /\ \E i \in 0 .. pre_n - 1 :
           /\ i # call.node
           /\ Count(PreList(i), pre_n - 1) > 0
           /\ call.node < pre_n - 1
    /\ \E i \in 0 .. n - 1 : Count(List(i), n - 1) > 0

\* C2: in every reachable state there are as many adjacency lists as node
\* values, also after an addNode that returned InvalidParent and after a
\* failed removeNode.
C2_ListsMatchValues == Len(g.adj) = Len(g.node_data)

\* An addNode with an invalid parent has returned InvalidParent on a graph
\* that had nodes already.
C2_Witness ==
    /\ call.op = "addNode"
    /\ status = GRAPH_ERR_INVALID_PARENT
    /\ pre_n >= 1
    /\ n = pre_n + 1

\* C3: addNode(v, badParent) with badParent a real index >= the node count
\* returns (old node count, InvalidParent), appends v with an empty list,
\* leaves every earlier list as it was and puts the new index in no list.
C3_AddNodeInvalidParent ==
    (call.op = "addNode" /\ call.parent # SIZE_MAX /\ call.parent >= pre_n) =>
        /\ out_node = pre_n
        /\ status = GRAPH_ERR_INVALID_PARENT
        /\ n = pre_n + 1
        /\ Len(g.adj) = pre_n + 1
        /\ At(g.node_data, pre_n) = call.val
        /\ List(pre_n) = << >>
        /\ \A i \in 0 .. pre_n - 1 :
               /\ At(g.node_data, i) = At(pre_g.node_data, i)
               /\ List(i) = PreList(i)
        /\ \A i \in 0 .. n - 1 : Count(List(i), out_node) = 0

\* addNode was called with the parent equal to the node count (the smallest
\* invalid parent) on a graph that holds an edge.
C3_Witness ==
    /\ call.op = "addNode"
    /\ call.parent = pre_n
    /\ pre_n >= 1
    /\ SumLen(pre_g.adj) >= 1
    /\ status = GRAPH_ERR_INVALID_PARENT

\* C4: addNode(v, p) with p < n returns (n, Success), appends v with an empty
\* list and appends n at the end of p's list, every other list and every
\* value unchanged; addNode(v, none) returns (n, Success) and changes no
\* existing list.
C4_AddNodeSuccess ==
    (call.op = "addNode" /\ (call.parent < pre_n \/ call.parent = SIZE_MAX)) =>
        /\ out_node = pre_n
        /\ status = GRAPH_SUCCESS
        /\ n = pre_n + 1
        /\ Len(g.adj) = pre_n + 1
        /\ At(g.node_data, pre_n) = call.val
        /\ List(pre_n) = << >>
        /\ \A i \in 0 .. pre_n - 1 :
               /\ At(g.node_data, i) = At(pre_g.node_data, i)
               /\ List(i) = IF i = call.parent
                            THEN PreList(i) \o <<pre_n>>
                            ELSE PreList(i)

\* addNode was called with a valid parent whose list was not empty, on a
\* graph with another node besides the parent.
C4_Witness ==
    /\ call.op = "addNode"
    /\ call.parent < pre_n
    /\ pre_n >= 2
    /\ PreList(call.parent) # << >>
    /\ status = GRAPH_SUCCESS

\* C5: addEdge(s, t) with s >= n or t >= n returns InvalidEdge and leaves
\* node values and every adjacency list as they were.
C5_AddEdgeOutOfRange ==
    (call.op = "addEdge" /\ (call.source >= pre_n \/ call.target >= pre_n)) =>
        /\ status = GRAPH_ERR_INVALID_EDGE
        /\ GraphUnchanged

\* addEdge was called with a valid source and an out-of-range target.
C5_Witness ==
    /\ call.op = "addEdge"
    /\ call.source < pre_n
    /\ call.target >= pre_n
    /\ status = GRAPH_ERR_INVALID_EDGE

\* C6: addEdge(s, t) with s < n and t < n returns Success and appends t at
\* the end of s's list, duplicates and self-loops included; the list grows by
\* one, node values and all other lists are unchanged.
C6_AddEdgeInRange ==
    (call.op = "addEdge" /\ call.source < pre_n /\ call.target < pre_n) =>
        /\ status = GRAPH_SUCCESS
        /\ g.node_data = pre_g.node_data
        /\ Len(g.adj) = Len(pre_g.adj)
        /\ Len(List(call.source)) = Len(PreList(call.source)) + 1
        /\ \A i \in 0 .. pre_n - 1 :
               List(i) = IF i = call.source
                         THEN PreList(i) \o <<call.target>>
                         ELSE PreList(i)

\* addEdge added a self-loop that the list already held.
C6_Witness ==
    /\ call.op = "addEdge"
    /\ call.source < pre_n
    /\ call.target = call.source
    /\ Count(PreList(call.source), call.target) >= 1
    /\ status = GRAPH_SUCCESS

\* new is old with the element at position k (1-based) deleted and every
\* other element kept in order.
DeletedAt(old, new, k) ==
    /\ Len(new) = Len(old) - 1
    /\ \A j \in 1 .. k - 1 : new[j] = old[j]
    /\ \A j \in k .. Len(new) : new[j] = old[j + 1]

\* C7: removeEdge(s, t) with s < n and t in s's list returns Success and
\* deletes only the leftmost t: the other elements, further copies of t
\* included, keep their order; node values and all other lists are unchanged.
C7_RemoveEdgeFirstOccurrence ==
    (call.op = "removeEdge" /\ call.source < pre_n
        /\ Count(PreList(call.source), call.target) > 0) =>
        /\ status = GRAPH_SUCCESS
        /\ g.node_data = pre_g.node_data
        /\ Len(g.adj) = Len(pre_g.adj)
        /\ \A i \in 0 .. pre_n - 1 : i # call.source => List(i) = PreList(i)
        /\ \E k \in 1 .. Len(PreList(call.source)) :
               /\ PreList(call.source)[k] = call.target
               /\ \A h \in 1 .. k - 1 : PreList(call.source)[h] # call.target
               /\ DeletedAt(PreList(call.source), List(call.source), k)

\* removeEdge was called on a list that held the target twice with another
\* target in between.
C7_Witness ==
    /\ call.op = "removeEdge"
    /\ call.source < pre_n
    /\ Len(PreList(call.source)) = 3
    /\ PreList(call.source)[1] = call.target
    /\ PreList(call.source)[2] # call.target
    /\ PreList(call.source)[3] = call.target
    /\ status = GRAPH_SUCCESS

\* C8: if t occurs m times in s's list (s < n), then of m + 1 consecutive
\* calls removeEdge(s, t) the first m return Success, after them the list
\* holds no t, and call m + 1 returns InvalidEdge.  run.m is the m of the
\* run, run.len the number of calls of the run made so far.
C8_RunOfRemoveEdge ==
    (call.op = "removeEdge" /\ call.source < n) =>
        /\ run.len >= 1
        /\ run.len <= run.m => status = GRAPH_SUCCESS
        /\ run.len = run.m => Count(List(call.source), call.target) = 0
        /\ run.len = run.m + 1 => status = GRAPH_ERR_INVALID_EDGE

\* The fourth removeEdge(s, 2) in a row on a list that was [2, 2, 2].
C8_Witness ==
    /\ call.op = "removeEdge"
    /\ call.source < n
    /\ call.target = 2
    /\ run.m = 3
    /\ run.len = 4
    /\ status = GRAPH_ERR_INVALID_EDGE

\* C9: removeEdge(s, t) returns InvalidEdge exactly when s >= n or t is not
\* in s's list, and then leaves node values and every list as they were.
C9_RemoveEdgeInvalid ==
    call.op = "removeEdge" =>
        /\ status = GRAPH_ERR_INVALID_EDGE <=>
               (call.source >= pre_n \/ Count(PreList(call.source), call.target) = 0)
        /\ status = GRAPH_ERR_INVALID_EDGE => GraphUnchanged

\* removeEdge was called with a valid source whose list is not empty and
\* does not hold the target.
C9_Witness ==
    /\ call.op = "removeEdge"
    /\ call.source < pre_n
    /\ PreList(call.source) # << >>
    /\ Count(PreList(call.source), call.target) = 0
    /\ status = GRAPH_ERR_INVALID_EDGE

\* C10: removeNode(k) with k >= n returns InvalidNode and mutates nothing:
\* node count, node values and every list are as they were.
C10_RemoveNodeOutOfRange ==
    (call.op = "removeNode" /\ call.node >= pre_n) =>
        /\ status = GRAPH_ERR_INVALID_NODE
        /\ n = pre_n
        /\ GraphUnchanged

\* removeNode was called with k equal to the node count on a graph that has
\* nodes and an edge.
C10_Witness ==
    /\ call.op = "removeNode"
    /\ call.node = pre_n
    /\ pre_n >= 2
    /\ SumLen(pre_g.adj) >= 1
    /\ status = GRAPH_ERR_INVALID_NODE

\* The list a successful removeNode(k) must leave in place of old: read left
\* to right, every k dropped, every target above k lowered by one, every
\* target below k kept.
RECURSIVE Renumbered(_, _)
Renumbered(old, k) ==
    IF old = << >> THEN << >>
    ELSE LET h == Head(old)
             rest == Renumbered(Tail(old), k)
         IN  IF h = k THEN rest
             ELSE IF h > k THEN <<h - 1>> \o rest
             ELSE <<h>> \o rest

\* The index that old node i has after removeNode(k), for i # k.
NewIndex(i, k) == IF i > k THEN i - 1 ELSE i

\* The recorded call is a removeNode that succeeded.
RemovedNode == call.op = "removeNode" /\ status = GRAPH_SUCCESS

\* C11: after a successful removeNode(k) each remaining node's list is its
\* old list with all occurrences of k removed, every surviving target above k
\* replaced by target - 1, every target below k unchanged, order preserved.
C11_RemoveNodeRewritesLists ==
    RemovedNode =>
        \A i \in 0 .. pre_n - 1 :
            i # call.node =>
                LET old == PreList(i)
                    new == List(NewIndex(i, call.node))
                IN  /\ new = Renumbered(old, call.node)
                    /\ Len(new) = Len(old) - Count(old, call.node)
                    /\ \A x \in 0 .. pre_n - 1 :
                           x # call.node =>
                               Count(new, NewIndex(x, call.node)) = Count(old, x)

\* removeNode(k) succeeded on a graph where another node's list held k twice
\* with a target above k in between.
C11_Witness ==
    /\ RemovedNode
    /\ \E i \in 0 .. pre_n - 1 :
           /\ i # call.node
           /\ Len(PreList(i)) = 3
           /\ PreList(i)[1] = call.node
           /\ PreList(i)[2] > call.node
           /\ PreList(i)[3] = call.node

\* C12: a successful removeNode(k) lowers the node count by one; the value and
\* the rewritten list of old node i < k stay at index i, those of old node
\* i > k move to index i - 1, those of old node k are gone; value and list of
\* a surviving node stay paired.
C12_RemoveNodeRenumbers ==
    RemovedNode =>
        /\ n = pre_n - 1
        /\ Len(g.adj) = pre_n - 1
        /\ \A i \in 0 .. pre_n - 1 :
               i # call.node =>
                   /\ At(g.node_data, NewIndex(i, call.node)) = At(pre_g.node_data, i)
                   /\ List(NewIndex(i, call.node)) = Renumbered(PreList(i), call.node)

\* removeNode(k) succeeded on three nodes with k in the middle, the two
\* survivors holding different values and the last one holding an edge.
C12_Witness ==
    /\ RemovedNode
    /\ pre_n = 3
    /\ call.node = 1
    /\ At(pre_g.node_data, 0) # At(pre_g.node_data, 2)
    /\ At(pre_g.node_data, 1) # At(pre_g.node_data, 2)
    /\ PreList(2) # << >>
    /\ PreList(1) # << >>

\* C14: addNode returns only Success or InvalidParent, addEdge and removeEdge
\* only Success or InvalidEdge, removeNode only Success or InvalidNode; every
\* call sets a status.
C14_StatusPerOperation ==
    /\ call.op = "addNode" =>
           status \in {GRAPH_SUCCESS, GRAPH_ERR_INVALID_PARENT}
    /\ call.op \in {"addEdge", "removeEdge"} =>
           status \in {GRAPH_SUCCESS, GRAPH_ERR_INVALID_EDGE}
    /\ call.op = "removeNode" =>
           status \in {GRAPH_SUCCESS, GRAPH_ERR_INVALID_NODE}
    /\ call # NoCall => status # UNSET

\* removeEdge was called with a source that is out of range although the
\* graph has nodes.
C14_Witness ==
    /\ call.op = "removeEdge"
    /\ pre_n >= 1
    /\ call.source >= pre_n
    /\ status = GRAPH_ERR_INVALID_EDGE

\* C16: removeEdge(s, t) with t >= n returns InvalidEdge and leaves the graph
\* unchanged, although only the source is validated.
C16_RemoveEdgeTargetOutOfRange ==
    (call.op = "removeEdge" /\ call.target >= pre_n) =>
        /\ status = GRAPH_ERR_INVALID_EDGE
        /\ GraphUnchanged

\* removeEdge was called with a valid source whose list holds the largest
\* valid target, and a target that is out of range by one.
C16_Witness ==
    /\ call.op = "removeEdge"
    /\ call.source < pre_n
    /\ call.target = pre_n
    /\ Count(PreList(call.source), pre_n - 1) >= 1
    /\ status = GRAPH_ERR_INVALID_EDGE

\* C13: from the empty graph, the calls of main give: addNode(1.23, none)
\* index 0, Success; addNode(4.56, 0) index 1, Success, node 0's list [1];
\* addEdge(0, 1) Success, list [1, 1]; removeEdge(0, 1) Success, list [1];
\* removeNode(1) Success, node count 1, node 0's list [].
C13_MainScenario ==
    /\ driver.step >= 1 =>
           /\ driver.root = 0
           /\ driver.printed[1] = GRAPH_SUCCESS
    /\ driver.step >= 2 =>
           /\ driver.child = 1
           /\ driver.printed[2] = GRAPH_SUCCESS
    /\ driver.step = 1 => (n = 1 /\ List(0) = << >>)
    /\ driver.step = 2 => (n = 2 /\ List(0) = <<1>>)
    /\ driver.step = 3 =>
           (driver.printed[3] = GRAPH_SUCCESS /\ n = 2 /\ List(0) = <<1, 1>>)
    /\ driver.step = 4 =>
           (driver.printed[4] = GRAPH_SUCCESS /\ n = 2 /\ List(0) = <<1>>)
    /\ driver.step = 5 =>
           /\ driver.printed = [j \in 1 .. 5 |-> GRAPH_SUCCESS]
           /\ n = 1
           /\ g.node_data = <<"v1_23">>
           /\ g.adj = << << >> >>

\* The last call of main, removeNode(child), has returned.
C13_Witness ==
    /\ driver.step = 5
    /\ call = [op |-> "removeNode", node |-> 1]

\* C17: addNode(v, p) with any p, immediately followed by removeNode of the
\* returned index, returns Success from removeNode and restores node values
\* and adjacency lists as they were before the addNode.
C17_AddNodeRemoveNodeRoundTrip ==
    trip.kind = "addNode-removeNode" =>
        /\ status = GRAPH_SUCCESS
        /\ g.node_data = trip.g0.node_data
        /\ g.adj = trip.g0.adj

\* removeNode has undone an addNode that had appended an edge to the list of
\* a valid parent, which already held a target.
C17_Witness ==
    /\ trip.kind = "addNode-removeNode"
    /\ call.node = Len(trip.g0.node_data)
    /\ Len(pre_g.node_data) = Len(trip.g0.node_data) + 1
    /\ \E i \in 0 .. Len(trip.g0.node_data) - 1 :
           /\ At(trip.g0.adj, i) # << >>
           /\ At(pre_g.adj, i) = At(trip.g0.adj, i) \o <<call.node>>

\* C18: a successful addEdge(s, t) immediately followed by removeEdge(s, t)
\* returns Success from removeEdge; it restores the graph exactly when t was
\* not in s's list before; when t was there, s's list is restored as a
\* multiset only: the leftmost earlier copy is removed and the appended copy
\* stays at the end.  All other lists and all values are unchanged.
C18_AddEdgeRemoveEdgeRoundTrip ==
    trip.kind = "addEdge-removeEdge" =>
        LET old == At(trip.g0.adj, call.source)
            new == List(call.source)
        IN  /\ status = GRAPH_SUCCESS
            /\ g.node_data = trip.g0.node_data
            /\ Len(g.adj) = Len(trip.g0.adj)
            /\ \A i \in 0 .. n - 1 :
                   i # call.source => List(i) = At(trip.g0.adj, i)
            /\ Count(old, call.target) = 0 => new = old
            /\ \A x \in 0 .. n - 1 : Count(new, x) = Count(old, x)
            /\ Count(old, call.target) > 0 =>
                   /\ new[Len(new)] = call.target
                   /\ \E k \in 1 .. Len(old) :
                          /\ old[k] = call.target
                          /\ \A h \in 1 .. k - 1 : old[h] # call.target
                          /\ DeletedAt(old, SubSeq(new, 1, Len(new) - 1), k)

\* removeEdge has undone an addEdge on a list that held the target before
\* another target: the list is restored as a multiset, not in its order.
C18_Witness ==
    /\ trip.kind = "addEdge-removeEdge"
    /\ Len(At(trip.g0.adj, call.source)) = 2
    /\ At(trip.g0.adj, call.source)[1] = call.target
    /\ At(trip.g0.adj, call.source)[2] # call.target
    /\ List(call.source) # At(trip.g0.adj, call.source)
    /\ status = GRAPH_SUCCESS

\* A call has been entered and has not returned.
Running == frame.pc \in {"entry", "loop"}
Returned == frame.pc = "returned"

\* C15: every call of addNode, addEdge, removeEdge and removeNode, from any
\* reachable state and with any arguments, returns, and has then set a
\* status; the loop of removeNode has then visited each remaining list once.
C15_EveryCallReturns ==
    /\ Running ~> Returned
    /\ [](Returned =>
            /\ status # UNSET
            /\ (call.op = "removeNode" /\ status = GRAPH_SUCCESS) =>
                   /\ Len(frame.visits) = Len(g.adj)
                   /\ \A j \in 1 .. Len(frame.visits) : frame.visits[j] = 1)

\* removeNode has returned Success after its loop went over two remaining
\* lists, one of which it rewrote.
C15_Witness ==
    /\ Returned
    /\ call.op = "removeNode"
    /\ status = GRAPH_SUCCESS
    /\ Len(g.adj) = 2
    /\ frame.visits = <<1, 1>>
    /\ \E i \in 0 .. 1 : List(i) # At(erase_at(pre_g.adj, call.node), i)

\* Under StepSpec a call that has returned has left what the operator of the
\* same name gives for the Graph the call was entered with.
StepsAgreeWithOperators ==
    Returned =>
        LET r == Outcome(pre_g, call, 0)
        IN  g = r.g /\ status = r.status /\ out_node = r.out_node

=============================================================================
